---- MODULE Spec2Model ----
(***************************************************************************)
(* Model of the interview engine of backend/routes/interview.py: the two   *)
(* HTTP routes start_interview and end_interview, and the websocket        *)
(* handler interview_websocket with its nested helpers.  Each websocket    *)
(* connection is one asyncio task; an action of the model is the code the  *)
(* task runs between two suspension points that matter for shared state    *)
(* (the database, active_sessions and the per-session state dict).         *)
(*                                                                         *)
(* Time is the value of datetime.utcnow() in whole seconds.  Byte strings  *)
(* are sequences of pieces [src, lo, hi]: bytes lo..hi-1 of inbound chunk  *)
(* src, so that lengths are the real lengths and contents stay comparable. *)
(***************************************************************************)
EXTENDS Integers, Sequences, FiniteSets, TLC

(* ---- bounds of the exploration (not program constants) ---- *)
MaxSessions == 1
MaxSessionsSideBySide == 2
MaxSends == 3
MaxAudioSends == 4
MaxFrames == 5
MaxHistory == 8
MaxUserTurns == 1
MaxInbox == 1
MaxTicks == 2
MaxInterviewSends == 14
MaxInterviewTicks == 7
MaxCeilingSends == 16
MaxLaterSends == 1
MaxCeilingTicks == 8

(* ---- program constants ---- *)
AUDIO_SAMPLE_RATE == 16000
AUDIO_CHANNELS == 1
AUDIO_WIDTH == 2
VAD_FRAME_MS == 30
VAD_FRAME_BYTES == (((AUDIO_SAMPLE_RATE * VAD_FRAME_MS) \div 1000) * AUDIO_WIDTH) * AUDIO_CHANNELS
MAX_INTERVIEW_MINUTES == 30
MAX_QUESTION_EXCHANGES == 10
max_silence_sec == 60
SILENCE_THRESHOLD_MS == 1000

(* None: an unset end_time / silence_start.  The clock starts at 1. *)
None == 0

Conns == {"ws1", "ws2"}
Users == {1, 2}
(* The resumes table holds one resume, uploaded by user 1. *)
Resumes == {1}
(* The clock advances by just over the silence threshold, by the no-response
   timeout, or by just over the maximum session duration. *)
TickSteps == {2, max_silence_sec, MAX_INTERVIEW_MINUTES * 60 + 1}
ChunkSizes == {VAD_FRAME_BYTES}
(* The text messages of a client: the end command, another JSON object, and
   JSON that is not an object. *)
TextBodies == {"end", "other", "nonobject"}

(* Resume.user_id *)
resume_owner(r) == 1

VARIABLES
    now,              \* datetime.utcnow(), seconds
    ticks,            \* number of clock advances so far (exploration budget)
    sends,            \* number of client messages so far (exploration budget)
    sessions,         \* table interview_sessions: id = index
    questions,        \* table interview_questions: id = index
    responses,        \* table user_responses
    active_sessions,  \* keys of the module-level dict active_sessions
    state,            \* the state dict created for each session id
    ws,               \* per connection: the handler's position and locals
    inbox,            \* per connection: messages sent by the client, not yet received
    sent,             \* per connection: messages the handler has sent
    severed,          \* per connection: the client has gone
    tts_ok,           \* gTTS answers (text_to_audio_bytes does not fail)
    whisper_model,    \* the Whisper model was loaded at import ("loaded" or "None")
    ai,               \* a call of get_ai_interview_response: its arguments, what the
                      \* backend does, the value returned, whether it was called
    http,             \* the last call of POST /end-interview/{session_id} and
                      \* the status of its response
    obs               \* observations used to state the properties: per connection,
                      \* what the classifier has decided (speech_bytes: the frames
                      \* classified as speech since the last utterance closed;
                      \* frame_len: the length of the last frame it was given,
                      \* frame: that frame)

vars == <<now, ticks, sends, sessions, questions, responses, active_sessions,
          state, ws, inbox, sent, severed, tts_ok, whisper_model, ai, http, obs>>

(* What the websocket handler, the client and start_interview never write. *)
env == <<tts_ok, whisper_model, ai, http>>

(* ---- byte strings ---- *)
RECURSIVE BLen(_)
BLen(b) == IF b = <<>> THEN 0 ELSE (Head(b).hi - Head(b).lo) + BLen(Tail(b))

(* The slice b[:n] taken as the whole of b. *)
BTakeAll(b, n) == b

RECURSIVE BTake(_, _)
BTake(b, n) ==
    IF n <= 0 \/ b = <<>> THEN <<>>
    ELSE LET p == Head(b)
             l == p.hi - p.lo
         IN IF l <= n THEN <<p>> \o BTake(Tail(b), n - l)
            ELSE <<[src |-> p.src, lo |-> p.lo, hi |-> p.lo + n]>>

(* The slice b[n:] taken as the buffer without its first chunk. *)
BDropPiece(b, n) == IF b = <<>> THEN <<>> ELSE Tail(b)

RECURSIVE BDrop(_, _)
BDrop(b, n) ==
    IF b = <<>> THEN <<>>
    ELSE IF n <= 0 THEN b
    ELSE LET p == Head(b)
             l == p.hi - p.lo
         IN IF l <= n THEN BDrop(Tail(b), n - l)
            ELSE <<[src |-> p.src, lo |-> p.lo + n, hi |-> p.hi]>> \o Tail(b)

Piece(src, lo, hi) == [src |-> src, lo |-> lo, hi |-> hi]

(* b"".join(pieces): one byte string; pieces that continue one another are
   the same bytes as the one piece that spans them. *)
RECURSIVE join(_)
join(b) ==
    IF Len(b) < 2 THEN b
    ELSE IF b[1].src = b[2].src /\ b[1].hi = b[2].lo
         THEN join(<<Piece(b[1].src, b[1].lo, b[2].hi)>> \o SubSeq(b, 3, Len(b)))
         ELSE <<b[1]>> \o join(Tail(b))

(* The bytes of a chunk received on connection c, appended to buffer b: they
   are numbered on from the last bytes of c that b holds. *)
RECURSIVE NextOffset(_, _)
NextOffset(b, c) ==
    IF b = <<>> THEN 0
    ELSE IF b[Len(b)].src = c THEN b[Len(b)].hi
    ELSE NextOffset(SubSeq(b, 1, Len(b) - 1), c)

Chunk(c, b, size) ==
    IF size = 0 THEN << >>
    ELSE << Piece(c, NextOffset(b, c), NextOffset(b, c) + size) >>

(* ---- messages ---- *)
Msg(kind, body) == [kind |-> kind, body |-> body]

InMsg(kind, body, size) == [kind |-> kind, body |-> body, size |-> size]

(* ---- the handler's locals before the connection is accepted ---- *)
NoLocals ==
    [pc |-> "init", session_id |-> 0, user |-> 0,
     question_count |-> 0, current_question_db_id |-> 0,
     silence_start |-> None, processing |-> FALSE, awaiting_response |-> FALSE,
     speech_detected |-> FALSE, last_speech_frame_time |-> None,
     reason |-> "", full_audio |-> <<>>, exit |-> ""]

NoObs == [speech_seen |-> FALSE, frame_bit |-> FALSE, last_frame |-> "none",
          speech_bytes |-> <<>>, frame_len |-> 0, frame |-> <<>>]

(* No call of get_ai_interview_response is being looked at. *)
NoAiCall ==
    [parsed_resume_data |-> 0, conversation_history |-> <<>>,
     current_user_response |-> "", backend |-> "answers", result |-> <<>>,
     called |-> FALSE]

(* The end-interview route has not been called. *)
NoRequest == [user |-> 0, session_id |-> 0, status |-> 0]

(* The server after import: no session, no connection. *)
NoSession ==
    /\ now = 1
    /\ ticks = 0
    /\ sends = 0
    /\ sessions = <<>>
    /\ questions = <<>>
    /\ responses = <<>>
    /\ active_sessions = {}
    /\ state = <<>>
    /\ ws = [c \in Conns |-> NoLocals]
    /\ inbox = [c \in Conns |-> <<>>]
    /\ sent = [c \in Conns |-> <<>>]
    /\ severed = [c \in Conns |-> FALSE]
    /\ obs = [c \in Conns |-> NoObs]
    /\ http = NoRequest

Init ==
    /\ NoSession
    /\ tts_ok \in BOOLEAN
    /\ whisper_model = "loaded"
    /\ ai = NoAiCall

(* ---- the clock ---- *)
(* The clock advances between the handlers' turns: while no handler is
   between two receives. *)
TickWithin(d, limit) ==
    /\ ticks < limit
    /\ \A c \in DOMAIN ws : ws[c].pc \in {"init", "closed", "receive", "done", "crashed"}
    /\ now' = now + d
    /\ ticks' = ticks + 1
    /\ UNCHANGED <<sends, sessions, questions, responses, active_sessions,
                   state, ws, inbox, sent, severed, tts_ok, whisper_model, ai, http,
                   obs>>

Tick(d) == TickWithin(d, MaxTicks)

(* ---- utils/ai.py: get_ai_interview_response when the request fails ---- *)
(* Texts are sequences of parts, so that a + b is a \o b. *)
acknowledgment == "Thank you for sharing that information. "

closing_statement ==
    "Thank you for your time today. We've covered several important aspects of your background and experience. We'll review your responses and get back to you soon about next steps."

base_questions ==
    << "Can you walk me through your resume?",
       "What role are you most interested in and why?",
       "Tell me about a technical challenge you solved.",
       "Which of your skills do you use most often?",
       "What do you expect from your next job or team?",
       "Why are you looking for new opportunities?",
       "How do you approach problem-solving at work?" >>

(* random.shuffle(base_questions): every order of the list *)
Shuffles ==
    {[i \in DOMAIN base_questions |-> base_questions[p[i]]] :
        p \in Permutations(DOMAIN base_questions)}

(* generate_fallback_questions(resume_data): the lists it can return *)
generate_fallback_questions(resume_data) == Shuffles

AssistantTurns(conversation_history) ==
    Cardinality({i \in 1..Len(conversation_history) :
                    conversation_history[i].role = "assistant"})

(* The except branch with the closing statement prefixed like a question. *)
AiResponseClosingAcknowledged(parsed_resume_data, conversation_history, current_user_response, backend) ==
    IF backend = "answers" THEN {<<"generated text">>}
    ELSE LET ack == IF conversation_history # <<>> /\ current_user_response # ""
                    THEN <<acknowledgment>> ELSE <<>>
             question_index == AssistantTurns(conversation_history)
         IN {IF question_index < Len(fallback_questions)
             THEN ack \o <<fallback_questions[question_index + 1]>>
             ELSE ack \o <<closing_statement>> :
                fallback_questions \in generate_fallback_questions(parsed_resume_data)}

(* get_ai_interview_response: the values it can return.  backend is what
   the request does: it answers with status 200 and a text, or it fails (an
   error status, a timeout, an exception), which ends in the except branch. *)
get_ai_interview_response(parsed_resume_data, conversation_history, current_user_response, backend) ==
    IF backend = "answers" THEN {<<"generated text">>}
    ELSE LET ack == IF conversation_history # <<>> /\ current_user_response # ""
                    THEN <<acknowledgment>> ELSE <<>>
             question_index == AssistantTurns(conversation_history)
         IN {IF question_index < Len(fallback_questions)
             THEN ack \o <<fallback_questions[question_index + 1]>>
             ELSE <<closing_statement>> :
                fallback_questions \in generate_fallback_questions(parsed_resume_data)}

(* start_interview and the websocket handler store and send the text
   without looking into it: they are modelled with the kind of text it is. *)
TextKind(text) ==
    IF text = <<"generated text">> THEN "question"
    ELSE IF text[Len(text)] = closing_statement THEN "closing statement"
    ELSE "fallback question"

(* await asyncio.to_thread(get_ai_interview_response, ...) with the backend
   as it is. *)
AiTexts(parsed_resume_data, conversation_history, current_user_response) ==
    {TextKind(text) :
        text \in get_ai_interview_response(parsed_resume_data, conversation_history,
                                            current_user_response, ai.backend)}

(* ---- POST /api/start-interview/ ---- *)
StartInterview(u, r, limit) ==
    /\ Len(sessions) < limit
    /\ resume_owner(r) = u
    /\ \E first_question \in AiTexts(r, <<>>, "") :
       LET sid == Len(sessions) + 1
           qid == Len(questions) + 1
       IN /\ sessions' = Append(sessions,
                [user_id |-> u, resume_id |-> r, start_time |-> now,
                 end_time |-> None, end_writes |-> 0])
          /\ questions' = Append(questions,
                [session_id |-> sid, question_text |-> first_question,
                 by |-> "start_interview"])
          /\ state' = Append(state,
                [conversation_history |-> <<[role |-> "assistant", content |-> first_question]>>,
                 audio_buffer_raw |-> <<>>,
                 current_question_db_id |-> qid,
                 start_time |-> now,
                 question_count |-> 1])
          /\ active_sessions' = active_sessions \cup {sid}
    /\ UNCHANGED <<env, now, ticks, sends, responses, ws, inbox, sent, severed, obs>>

start_interview(u, r) == StartInterview(u, r, MaxSessions)

(* The write of end_time as an UPDATE of every row of the table. *)
SetEndTimeOfAll(tab, sid, t) ==
    [i \in DOMAIN tab |-> [tab[i] EXCEPT !.end_time = t, !.end_writes = @ + 1]]

(* ---- the write of end_time shared by the termination paths ---- *)
SetEndTime(tab, sid, t) ==
    [tab EXCEPT ![sid].end_time = t, ![sid].end_writes = @ + 1]

SetEndTimeIfUnset(tab, sid, t) ==
    IF tab[sid].end_time = None THEN SetEndTime(tab, sid, t) ELSE tab

(* ---- POST /api/end-interview/{session_id} ---- *)
(* The query of line 152 run on table tab with any row accepted, whoever
   owns it. *)
SessionById(tab, u, sid) ==
    IF sid \in 1..Len(tab) THEN sid ELSE None

(* db.query(InterviewSession).filter(id == session_id, user_id ==
   current_user.id).first(): the id of the row found, or None. *)
SessionOfUser(tab, u, sid) ==
    IF sid \in 1..Len(tab) /\ tab[sid].user_id = u THEN sid ELSE None

end_interview(u, sid) ==
    LET session == SessionOfUser(sessions, u, sid)
    IN /\ IF session = None
          THEN /\ http' = [user |-> u, session_id |-> sid, status |-> 404]
               /\ UNCHANGED <<sessions, active_sessions>>
          ELSE /\ sessions' = SetEndTimeIfUnset(sessions, session, now)
               /\ active_sessions' = active_sessions \ {sid}
               /\ http' = [user |-> u, session_id |-> sid, status |-> 200]
       /\ UNCHANGED <<tts_ok, whisper_model, ai, now, ticks, sends, questions,
                      responses, state, ws, inbox, sent, severed, obs>>

(* ---- websocket plumbing ---- *)
Sid(c) == ws[c].session_id

Running(c) == ws[c].pc \notin {"init", "closed", "done", "crashed"}

(* text_to_audio_bytes(text): the synthesized audio, or b"" when gTTS fails. *)
text_to_audio_bytes(text, ok) == IF ok THEN text ELSE ""

(* ask_question(text): what goes out on the channel. *)
ask_question(text, ok) ==
    LET ai_audio == text_to_audio_bytes(text, ok)
    IN IF ai_audio # "" THEN <<Msg("bytes", ai_audio), Msg("question", text)>> ELSE <<>>

(* acknowledge_response(): what goes out on the channel. *)
acknowledge_response(ok) ==
    LET ai_audio == text_to_audio_bytes("Thank you for your response.", ok)
    IN IF ai_audio # "" THEN <<Msg("bytes", ai_audio)>> ELSE <<>>

(* handle_no_response() sending its text as a question. *)
HandleNoResponseAsQuestion(ok) ==
    LET reminder == "I didn't hear anything."
        ai_audio == text_to_audio_bytes(reminder, ok)
    IN IF ai_audio # "" THEN <<Msg("bytes", ai_audio), Msg("question", reminder)>> ELSE <<>>

(* handle_no_response(): what goes out on the channel. *)
handle_no_response(ok) ==
    LET reminder == "I didn't hear anything."
        ai_audio == text_to_audio_bytes(reminder, ok)
    IN IF ai_audio # "" THEN <<Msg("bytes", ai_audio), Msg("reminder", reminder)>> ELSE <<>>

(* except WebSocketDisconnect: *)
except_WebSocketDisconnect(c, o) ==
    /\ sessions' = SetEndTime(sessions, Sid(c), now)
    /\ active_sessions' = active_sessions \ {Sid(c)}
    /\ ws' = [ws EXCEPT ![c].pc = "done", ![c].exit = "WebSocketDisconnect"]
    /\ obs' = [obs EXCEPT ![c] = o]
    /\ UNCHANGED sent

(* except Exception as e: the send_text comes first and raises on a severed
   channel, in which case the rest of the handler is not run. *)
except_Exception(c, o) ==
    IF severed[c]
    THEN /\ ws' = [ws EXCEPT ![c].pc = "crashed", ![c].exit = "Exception"]
         /\ obs' = [obs EXCEPT ![c] = o]
         /\ UNCHANGED <<sessions, active_sessions, sent>>
    ELSE /\ sent' = [sent EXCEPT ![c] = Append(@, Msg("error", "ERROR"))]
         /\ sessions' = SetEndTimeIfUnset(sessions, Sid(c), now)
         /\ active_sessions' = active_sessions \ {Sid(c)}
         /\ ws' = [ws EXCEPT ![c].pc = "done", ![c].exit = "Exception"]
         /\ obs' = [obs EXCEPT ![c] = o]

(* An exception of class exc leaves the try block of connection c. *)
Raise(c, exc, o) ==
    /\ \/ exc = "WebSocketDisconnect" /\ except_WebSocketDisconnect(c, o)
       \/ exc = "Exception" /\ except_Exception(c, o)
    /\ UNCHANGED <<env, now, ticks, sends, questions, responses, severed>>

(* A send or receive on a channel whose client has gone raises; which class
   the transport raises is not fixed by this code. *)
SeveredIO(c, o) ==
    \E exc \in {"WebSocketDisconnect", "Exception"} : Raise(c, exc, o)

SeveredSend(c) == SeveredIO(c, obs[c])

(* Send msgs on the channel of c and continue with locals w. *)
SendAndGo(c, msgs, w) ==
    IF msgs # <<>> /\ severed[c]
    THEN SeveredSend(c) /\ UNCHANGED <<state, inbox>>
    ELSE /\ sent' = [sent EXCEPT ![c] = @ \o msgs]
         /\ ws' = [ws EXCEPT ![c] = w]
         /\ UNCHANGED <<env, now, ticks, sends, sessions, questions, responses,
                        active_sessions, state, inbox, severed, obs>>

(* ---- the client ---- *)
ClientMessages ==
    {InMsg("text", b, 0) : b \in TextBodies} \cup {InMsg("bytes", "", n) : n \in ChunkSizes}

ClientSend(c, m, limit) ==
    /\ Running(c)
    /\ ~severed[c]
    /\ sends < limit
    /\ Len(inbox[c]) < MaxInbox
    /\ inbox' = [inbox EXCEPT ![c] = Append(@, m)]
    /\ sends' = sends + 1
    /\ UNCHANGED <<env, now, ticks, sessions, questions, responses, active_sessions,
                   state, ws, sent, severed, obs>>

(* The client closes the socket: the transport queues a disconnect notice. *)
ClientDisconnect(c) ==
    /\ Running(c)
    /\ ~severed[c]
    /\ severed' = [severed EXCEPT ![c] = TRUE]
    /\ inbox' = [inbox EXCEPT ![c] = Append(@, InMsg("disconnect", "", 0))]
    /\ UNCHANGED <<env, now, ticks, sends, sessions, questions, responses,
                   active_sessions, state, ws, sent, obs>>

(* Connections are named in the order in which they are opened. *)
Earlier(d, c) == d = "ws1" /\ c = "ws2"

(* A lookup that takes the session row for the runtime state. *)
ConnectByRow(c, sid, u) ==
    /\ ws[c].pc = "init"
    /\ \A d \in Conns : Earlier(d, c) => ws[d].pc # "init"
    /\ IF \/ u = 0
          \/ sid \notin 1..Len(sessions)
          \/ sessions[sid].user_id # u
       THEN ws' = [ws EXCEPT ![c].pc = "closed", ![c].session_id = sid, ![c].user = u,
                             ![c].exit = "WS_1008_POLICY_VIOLATION"]
       ELSE ws' = [ws EXCEPT ![c] =
                      [NoLocals EXCEPT
                          !.pc = "greeting", !.session_id = sid, !.user = u,
                          !.current_question_db_id = state[sid].current_question_db_id,
                          !.question_count = state[sid].question_count,
                          !.last_speech_frame_time = now]]
    /\ UNCHANGED <<env, now, ticks, sends, sessions, questions, responses,
                   active_sessions, state, inbox, sent, severed, obs>>

(* ---- interview_websocket: accept, authenticate, admit, bind the state ---- *)
Connect(c, sid, u) ==
    /\ ws[c].pc = "init"
    /\ \A d \in Conns : Earlier(d, c) => ws[d].pc # "init"
    /\ IF \/ u = 0
          \/ sid \notin active_sessions
          \/ sid \notin 1..Len(sessions)
          \/ sessions[sid].user_id # u
       THEN ws' = [ws EXCEPT ![c].pc = "closed", ![c].session_id = sid, ![c].user = u,
                             ![c].exit = "WS_1008_POLICY_VIOLATION"]
       ELSE ws' = [ws EXCEPT ![c] =
                      [NoLocals EXCEPT
                          !.pc = "greeting", !.session_id = sid, !.user = u,
                          !.current_question_db_id = state[sid].current_question_db_id,
                          !.question_count = state[sid].question_count,
                          !.last_speech_frame_time = now]]
    /\ UNCHANGED <<env, now, ticks, sends, sessions, questions, responses,
                   active_sessions, state, inbox, sent, severed, obs>>

(* await ask_question(greeting) *)
Greeting(c) ==
    /\ ws[c].pc = "greeting"
    /\ SendAndGo(c, ask_question("Hello", tts_ok), [ws[c] EXCEPT !.pc = "initial_q"])

(* initial_q = get_ai_interview_response(...) and the lines up to the await
   of ask_question(initial_q). *)
InitialQuestion(c) ==
    /\ ws[c].pc = "initial_q"
    /\ \E initial_q \in AiTexts(sessions[Sid(c)].resume_id,
                                 state[Sid(c)].conversation_history, "") :
       LET sid == Sid(c)
           qid == Len(questions) + 1
           qc == ws[c].question_count + 1
       IN /\ state' = [state EXCEPT
                 ![sid].conversation_history =
                     Append(@, [role |-> "assistant", content |-> initial_q]),
                 ![sid].question_count = qc]
          /\ questions' = Append(questions,
                 [session_id |-> sid, question_text |-> initial_q, by |-> c])
          /\ ws' = [ws EXCEPT ![c].current_question_db_id = qid,
                              ![c].question_count = qc,
                              ![c].pc = "ask_initial"]
    /\ UNCHANGED <<env, now, ticks, sends, sessions, responses, active_sessions,
                   inbox, sent, severed, obs>>

AskInitial(c) ==
    /\ ws[c].pc = "ask_initial"
    /\ SendAndGo(c, ask_question(questions[ws[c].current_question_db_id].question_text,
                                  tts_ok),
                    [ws[c] EXCEPT !.pc = "gate", !.awaiting_response = TRUE])

(* ---- end_session(reason) ---- *)
(* Lines 208-210 run up to the first await (the synthesis of the closing
   remark); w is the caller's locals, o its observations. *)
end_session(c, reason, w, o) ==
    /\ sessions' = SetEndTimeIfUnset(sessions, Sid(c), now)
    /\ ws' = [ws EXCEPT ![c] = [w EXCEPT !.pc = "end_session", !.reason = reason]]
    /\ obs' = [obs EXCEPT ![c] = o]

(* Lines 211-215: the closing remark, the end signal, the removal. *)
EndSessionSend(c) ==
    /\ ws[c].pc = "end_session"
    /\ IF severed[c]
       THEN SeveredSend(c) /\ UNCHANGED <<state, inbox>>
       ELSE
              /\ sent' = [sent EXCEPT ![c] =
                     @ \o <<Msg("bytes", text_to_audio_bytes("Thank you for participating", tts_ok)),
                            Msg("end", ws[c].reason)>>]
              /\ active_sessions' = active_sessions \ {Sid(c)}
              /\ ws' = [ws EXCEPT ![c].pc = "done", ![c].exit = "end_session"]
              /\ UNCHANGED <<env, now, ticks, sends, sessions, questions, responses,
                             state, inbox, severed, obs>>

(* ---- the loop gate, line 256 ---- *)
session_end_time(c) == state[Sid(c)].start_time + MAX_INTERVIEW_MINUTES * 60

CeilingReached(t, limit, qc) == t > limit \/ qc >= MAX_QUESTION_EXCHANGES

Gate(c) ==
    /\ ws[c].pc = "gate"
    /\ IF CeilingReached(now, session_end_time(c), ws[c].question_count)
       THEN /\ end_session(c, "Interview complete", ws[c], obs[c])
            /\ UNCHANGED <<env, now, ticks, sends, questions, responses,
                           active_sessions, state, inbox, sent, severed>>
       ELSE /\ ws' = [ws EXCEPT ![c].pc = "receive"]
            /\ UNCHANGED <<env, now, ticks, sends, sessions, questions, responses,
                           active_sessions, state, inbox, sent, severed, obs>>

(* ---- message = await websocket.receive() ---- *)
(* receive() on a channel whose client has gone and whose queue is empty *)
ReceiveSevered(c) ==
    /\ ws[c].pc = "receive"
    /\ inbox[c] = <<>>
    /\ severed[c]
    /\ SeveredIO(c, obs[c])
    /\ UNCHANGED <<state, inbox>>

(* lines 262-270: a text message *)
ReceiveText(c) ==
    /\ ws[c].pc = "receive"
    /\ inbox[c] # <<>>
    /\ Head(inbox[c]).kind = "text"
    /\ inbox' = [inbox EXCEPT ![c] = Tail(@)]
    /\ LET body == Head(inbox[c]).body
       IN CASE body = "end" ->
                 /\ end_session(c, "User ended interview", ws[c], obs[c])
                 /\ UNCHANGED <<env, now, ticks, sends, questions, responses,
                                active_sessions, state, sent, severed>>
            [] body = "nonobject" ->
                 \* json.loads gives a list, a number or a string: cmd.get raises
                 \* AttributeError, which is not a JSONDecodeError
                 /\ Raise(c, "Exception", obs[c])
                 /\ UNCHANGED state
            [] OTHER ->
                 /\ ws' = [ws EXCEPT ![c].pc = "gate"]
                 /\ obs' = [obs EXCEPT ![c] = obs[c]]
                 /\ UNCHANGED <<env, now, ticks, sends, sessions, questions, responses,
                                active_sessions, state, sent, severed>>

(* lines 272-273: a message with neither text nor bytes *)
ReceiveOther(c) ==
    /\ ws[c].pc = "receive"
    /\ inbox[c] # <<>>
    /\ Head(inbox[c]).kind \notin {"text", "bytes"}
    /\ inbox' = [inbox EXCEPT ![c] = Tail(@)]
    /\ ws' = [ws EXCEPT ![c].pc = "gate"]
    /\ obs' = [obs EXCEPT ![c] = obs[c]]
    /\ UNCHANGED <<env, now, ticks, sends, sessions, questions, responses,
                   active_sessions, state, sent, severed>>

(* ---- lines 275-306: an audio chunk ---- *)
(* The decision of line 286 taken the wrong way round. *)
SpeechDetectedInverted(speech_detected, is_speech) == ~is_speech \/ speech_detected

(* line 286-287: speech_detected after the classifier's decision *)
SpeechDetectedAfter(speech_detected, is_speech) == is_speech \/ speech_detected

(* The test of line 301 without its first operand. *)
UtteranceEndsOnSilenceAlone(speech_detected, t, last_speech_frame_time) ==
    (t - last_speech_frame_time) * 1000 > SILENCE_THRESHOLD_MS

(* line 301: speech has ended and the silence threshold has passed *)
UtteranceEnds(speech_detected, t, last_speech_frame_time) ==
    speech_detected /\ (t - last_speech_frame_time) * 1000 > SILENCE_THRESHOLD_MS

(* line 292-295: the no-response timeout has passed *)
NoResponseTimeout(idle, t, silence_start) ==
    idle /\ silence_start # None /\ (t - silence_start) >= max_silence_sec

(* An exception of a call run with asyncio.to_thread is raised in the
   handler at the await: a call that ends so has this outcome. *)
Raises == "raises Exception"

(* transcribe_audio_bytes without its except clause *)
TranscribeUncaught(model) ==
    IF model = "None"
    THEN {"Speech-to-Text service unavailable."}
    ELSE {"answer", "", " ", Raises}

(* transcribe_audio_bytes: what it can return: the fixed text when no model
   was loaded; otherwise the model's text (words, nothing, or white space
   only) or the error text of the except branch. *)
transcribe_audio_bytes(model) ==
    IF model = "None"
    THEN {"Speech-to-Text service unavailable."}
    ELSE {"answer", "", " ", "Error: Could not transcribe audio."}

ReceiveAudio(c) ==
    /\ ws[c].pc = "receive"
    /\ inbox[c] # <<>>
    /\ Head(inbox[c]).kind = "bytes"
    /\ inbox' = [inbox EXCEPT ![c] = Tail(@)]
    /\ LET sid == Sid(c)
           buf == state[sid].audio_buffer_raw
                    \o Chunk(c, state[sid].audio_buffer_raw, Head(inbox[c]).size)
           o0 == obs[c]
       IN IF BLen(buf) < VAD_FRAME_BYTES
          THEN /\ state' = [state EXCEPT ![sid].audio_buffer_raw = buf]
               /\ ws' = [ws EXCEPT ![c].pc = "gate"]
               /\ obs' = [obs EXCEPT ![c] = o0]
               /\ UNCHANGED <<env, now, ticks, sends, sessions, questions, responses,
                              active_sessions, sent, severed>>
          ELSE \E is_speech \in BOOLEAN :
            LET frame == BTake(buf, VAD_FRAME_BYTES)
                remainder == BDrop(buf, VAD_FRAME_BYTES)
                sd == SpeechDetectedAfter(ws[c].speech_detected, is_speech)
                last == IF is_speech THEN now ELSE ws[c].last_speech_frame_time
                sil0 == IF is_speech THEN None ELSE ws[c].silence_start
                idle == ws[c].awaiting_response /\ ~sd
                sil == IF idle /\ sil0 = None THEN now ELSE sil0
                o1 == [o0 EXCEPT !.speech_seen = @ \/ is_speech,
                                 !.frame_bit = ~@,
                                 !.last_frame = IF is_speech THEN "speech" ELSE "silence",
                                 !.speech_bytes = IF is_speech THEN @ \o frame ELSE @,
                                 !.frame_len = BLen(frame),
                                 !.frame = frame]
                w1 == [ws[c] EXCEPT !.speech_detected = sd,
                                    !.last_speech_frame_time = last,
                                    !.silence_start = sil]
            IN IF NoResponseTimeout(idle, now, sil0)
               THEN \* await handle_no_response(); silence_start = None; continue
                      LET msgs == handle_no_response(tts_ok)
                      IN /\ state' = [state EXCEPT ![sid].audio_buffer_raw = remainder]
                         /\ IF msgs # <<>> /\ severed[c]
                            THEN SeveredIO(c, o1)
                            ELSE /\ sent' = [sent EXCEPT ![c] = @ \o msgs]
                                 /\ ws' = [ws EXCEPT ![c] =
                                      [w1 EXCEPT !.pc = "gate", !.silence_start = None]]
                                 /\ obs' = [obs EXCEPT ![c] = o1]
                                 /\ UNCHANGED <<env, now, ticks, sends, sessions, questions,
                                                responses, active_sessions, severed>>
               ELSE IF UtteranceEnds(sd, now, last)
               THEN \* lines 302-320, up to the await of transcribe_audio_bytes
                    /\ state' = [state EXCEPT ![sid].audio_buffer_raw = <<>>]
                    /\ ws' = [ws EXCEPT ![c] =
                         [w1 EXCEPT !.pc = "transcribe", !.full_audio = remainder,
                                    !.speech_detected = FALSE,
                                    !.awaiting_response = FALSE,
                                    !.processing = TRUE]]
                    /\ obs' = [obs EXCEPT ![c] = [o1 EXCEPT !.speech_bytes = <<>>]]
                    /\ UNCHANGED <<env, now, ticks, sends, sessions, questions, responses,
                                   active_sessions, sent, severed>>
               ELSE \* await asyncio.sleep(0.01)
                    /\ state' = [state EXCEPT ![sid].audio_buffer_raw = remainder]
                    /\ ws' = [ws EXCEPT ![c] = [w1 EXCEPT !.pc = "gate"]]
                    /\ obs' = [obs EXCEPT ![c] = o1]
                    /\ UNCHANGED <<env, now, ticks, sends, sessions, questions, responses,
                                   active_sessions, sent, severed>>

(* ---- lines 320-338: the transcription has returned ---- *)
(* str.strip() and str.startswith("Error") on the texts of the model *)
strip(text) == IF text \in {"", " "} THEN "" ELSE text

startswith_Error(text) == text = "Error: Could not transcribe audio."

NoSpeechRecognized(user_text) ==
    strip(user_text) = "" \/ startswith_Error(user_text)

TranscriptionDone(c) ==
    /\ ws[c].pc = "transcribe"
    /\ \E user_text \in transcribe_audio_bytes(whisper_model) :
         IF user_text = Raises
         THEN Raise(c, "Exception", obs[c]) /\ UNCHANGED <<state, inbox>>
         ELSE IF severed[c]
         THEN SeveredSend(c) /\ UNCHANGED <<state, inbox>>
         ELSE IF NoSpeechRecognized(user_text)
         THEN
                /\ sent' = [sent EXCEPT ![c] =
                       Append(@, Msg("transcript", user_text)) \o handle_no_response(tts_ok)]
                /\ ws' = [ws EXCEPT ![c].pc = "gate", ![c].processing = FALSE]
                /\ UNCHANGED <<env, now, ticks, sends, sessions, questions, responses,
                               active_sessions, state, inbox, severed, obs>>
         ELSE IF \E i \in 1..Len(responses) :
                    responses[i].question_id = ws[c].current_question_db_id
         THEN \* user_responses.question_id is unique: the commit raises
              /\ Raise(c, "Exception", obs[c])
              /\ UNCHANGED <<state, inbox>>
         ELSE /\ sent' = [sent EXCEPT ![c] = Append(@, Msg("transcript", user_text))]
              /\ responses' = Append(responses,
                     [question_id |-> ws[c].current_question_db_id,
                      response_text |-> user_text, by |-> c])
              /\ state' = [state EXCEPT ![Sid(c)].conversation_history =
                     Append(@, [role |-> "user", content |-> user_text])]
              /\ ws' = [ws EXCEPT ![c].pc = "acknowledge"]
              /\ UNCHANGED <<env, now, ticks, sends, sessions, questions,
                             active_sessions, inbox, severed, obs>>

(* await acknowledge_response() *)
Acknowledge(c) ==
    /\ ws[c].pc = "acknowledge"
    /\ SendAndGo(c, acknowledge_response(tts_ok), [ws[c] EXCEPT !.pc = "next_q"])

(* user_text as passed at line 341: the text appended to the history at
   line 337. *)
RECURSIVE LastUserText(_)
LastUserText(conversation_history) ==
    IF conversation_history = <<>> THEN ""
    ELSE IF conversation_history[Len(conversation_history)].role = "user"
    THEN conversation_history[Len(conversation_history)].content
    ELSE LastUserText(SubSeq(conversation_history, 1, Len(conversation_history) - 1))

(* Lines 340-358 without the InterviewQuestion row: the text is generated
   and counted, and the handler goes on to ask. *)
NextQuestionNotPersisted(c) ==
    /\ ws[c].pc = "next_q"
    /\ state' = [state EXCEPT ![Sid(c)].question_count = ws[c].question_count + 1]
    /\ ws' = [ws EXCEPT ![c].question_count = @ + 1, ![c].pc = "ask_next"]
    /\ UNCHANGED <<env, now, ticks, sends, sessions, questions, responses,
                   active_sessions, inbox, sent, severed, obs>>

(* lines 340-358: the AI's next question is persisted and counted *)
NextQuestion(c) ==
    /\ ws[c].pc = "next_q"
    /\ \E ai_text \in AiTexts(sessions[Sid(c)].resume_id,
                               state[Sid(c)].conversation_history,
                               LastUserText(state[Sid(c)].conversation_history)) :
       LET sid == Sid(c)
           qid == Len(questions) + 1
           qc == ws[c].question_count + 1
       IN /\ questions' = Append(questions,
                 [session_id |-> sid, question_text |-> ai_text, by |-> c])
          /\ state' = [state EXCEPT
                 ![sid].question_count = qc,
                 ![sid].conversation_history =
                     Append(@, [role |-> "assistant", content |-> ai_text])]
          /\ ws' = [ws EXCEPT ![c].current_question_db_id = qid,
                              ![c].question_count = qc,
                              ![c].pc = "ask_next"]
    /\ UNCHANGED <<env, now, ticks, sends, sessions, responses, active_sessions,
                   inbox, sent, severed, obs>>

(* lines 359-364 *)
AskNext(c) ==
    /\ ws[c].pc = "ask_next"
    /\ SendAndGo(c, ask_question(questions[ws[c].current_question_db_id].question_text,
                                  tts_ok),
                    [ws[c] EXCEPT !.pc = "gate", !.awaiting_response = TRUE,
                                  !.processing = FALSE])

(* ---- the handler of one connection ---- *)
Handler(c) ==
    \/ Greeting(c)
    \/ InitialQuestion(c)
    \/ AskInitial(c)
    \/ Gate(c)
    \/ ReceiveSevered(c)
    \/ ReceiveText(c)
    \/ ReceiveOther(c)
    \/ ReceiveAudio(c)
    \/ TranscriptionDone(c)
    \/ Acknowledge(c)
    \/ NextQuestion(c)
    \/ AskNext(c)
    \/ EndSessionSend(c)

(* ---- one session, one websocket connection, any client ---- *)
Next ==
    \/ \E d \in TickSteps : Tick(d)
    \/ \E u \in Users, r \in Resumes : start_interview(u, r)
    \/ \E u \in Users, sid \in 1..MaxSessions : end_interview(u, sid)
    \/ \E sid \in 1..MaxSessions, u \in Users \cup {0} : Connect("ws1", sid, u)
    \/ \E m \in ClientMessages : ClientSend("ws1", m, MaxSends)
    \/ ClientDisconnect("ws1")
    \/ Handler("ws1")

Spec == Init /\ [][Next]_vars

(* ---- one session, two websocket connections opened by its owner, clients
   that only send audio ---- *)
AudioHandler(c) ==
    \/ Greeting(c)
    \/ InitialQuestion(c)
    \/ AskInitial(c)
    \/ Gate(c)
    \/ ReceiveAudio(c)
    \/ TranscriptionDone(c)
    \/ Acknowledge(c)
    \/ NextQuestion(c)
    \/ AskNext(c)

NextTwo ==
    \/ Tick(2)
    \/ start_interview(1, 1)
    \/ \E c \in Conns : Connect(c, 1, 1)
    \/ \E c \in Conns : ClientSend(c, InMsg("bytes", "", VAD_FRAME_BYTES), MaxAudioSends)
    \/ \E c \in Conns : AudioHandler(c)

SpecTwo == Init /\ [][NextTwo]_vars

(* ---- one session, one websocket connection, a client that streams audio
   frames and does nothing else: the input of the segmenter ---- *)
NextSeg ==
    \/ \E d \in TickSteps : Tick(d)
    \/ start_interview(1, 1)
    \/ Connect("ws1", 1, 1)
    \/ ClientSend("ws1", InMsg("bytes", "", VAD_FRAME_BYTES), MaxFrames)
    \/ AudioHandler("ws1")

SpecSeg == Init /\ [][NextSeg]_vars

(* ---- the same, with a synthesis service that comes and goes between the
   handler's turns ---- *)
SynthesisChanges ==
    /\ \A c \in DOMAIN ws : ws[c].pc \in {"init", "closed", "receive", "done", "crashed"}
    /\ tts_ok' = ~tts_ok
    /\ UNCHANGED <<whisper_model, ai, http, now, ticks, sends, sessions, questions, responses,
                   active_sessions, state, ws, inbox, sent, severed, obs>>

NextTts == NextSeg \/ SynthesisChanges

SpecTts == Init /\ [][NextTts]_vars

(* ---- one session of user 1.  The first connection is opened by another
   user or without a valid token, the second one by the owner; the
   end-interview route is called by the owner and by the other user ---- *)
NextAuth ==
    \/ Tick(2)
    \/ start_interview(1, 1)
    \/ \E u \in Users : end_interview(u, 1)
    \/ \E u \in (Users \cup {0}) \ {1} : Connect("ws1", 1, u)
    \/ Connect("ws2", 1, 1)
    \/ ClientSend("ws2", InMsg("bytes", "", VAD_FRAME_BYTES), MaxSends)
    \/ AudioHandler("ws2")

SpecAuth == Init /\ [][NextAuth]_vars

(* ---- utils/ai.py: the arguments of a call ---- *)
Roles == {"assistant", "user"}

UserTurns(conversation_history) ==
    Cardinality({i \in 1..Len(conversation_history) :
                    conversation_history[i].role = "user"})

Histories ==
    {h \in UNION {[1..n -> {[role |-> r, content |-> "text"] : r \in Roles}] :
                     n \in 0..MaxHistory} :
        UserTurns(h) <= MaxUserTurns}

(* The arguments of a call, and a backend that answers or fails. *)
InitAI ==
    /\ NoSession
    /\ tts_ok = TRUE
    /\ whisper_model = "loaded"
    /\ ai \in [parsed_resume_data : {1, 2}, conversation_history : Histories,
                current_user_response : {"", "answer"}, backend : {"answers", "fails"},
                result : {<<>>}, called : {FALSE}]

CallAi ==
    /\ \E r \in get_ai_interview_response(ai.parsed_resume_data, ai.conversation_history,
                                           ai.current_user_response, ai.backend) :
          ai' = [ai EXCEPT !.result = r, !.called = TRUE]
    /\ UNCHANGED <<tts_ok, whisper_model, http, now, ticks, sends, sessions, questions,
                   responses, active_sessions, state, ws, inbox, sent, severed, obs>>

NextAI == CallAi

SpecAI == InitAI /\ [][NextAI]_vars

(* ---- one session, one connection of its owner streaming audio, with
   services that work or fail: gTTS, the AI backend, the Whisper model (not
   loaded, or loaded and failing on some utterances) ---- *)
InitFail ==
    /\ NoSession
    /\ tts_ok \in BOOLEAN
    /\ whisper_model \in {"loaded", "None"}
    /\ ai \in {[NoAiCall EXCEPT !.backend = b] : b \in {"answers", "fails"}}

NextFail ==
    \/ Tick(2)
    \/ start_interview(1, 1)
    \/ Connect("ws1", 1, 1)
    \/ ClientSend("ws1", InMsg("bytes", "", VAD_FRAME_BYTES), MaxAudioSends)
    \/ AudioHandler("ws1")

SpecFail == InitFail /\ [][NextFail]_vars

(* ---- one session, one connection, a client that sends audio in chunks of
   any size: empty, less than a frame, a frame, more than a frame ---- *)
AnyChunkSizes == {0, VAD_FRAME_BYTES \div 2, VAD_FRAME_BYTES, 2 * VAD_FRAME_BYTES}

NextChunks ==
    \/ Tick(2)
    \/ start_interview(1, 1)
    \/ Connect("ws1", 1, 1)
    \/ \E n \in AnyChunkSizes : ClientSend("ws1", InMsg("bytes", "", n), MaxSends)
    \/ AudioHandler("ws1")

SpecChunks == Init /\ [][NextChunks]_vars

(* ---- a whole interview on one connection with an AI backend that fails
   on every call: the candidate answers question after question.  The
   server runs without Whisper model, so that every utterance gets the same
   text and is stored as a Response ---- *)
InitInterview ==
    /\ NoSession
    /\ tts_ok = TRUE
    /\ whisper_model = "None"
    /\ ai = [NoAiCall EXCEPT !.backend = "fails"]

NextInterview ==
    \/ TickWithin(2, MaxInterviewTicks)
    \/ start_interview(1, 1)
    \/ Connect("ws1", 1, 1)
    \/ ClientSend("ws1", InMsg("bytes", "", VAD_FRAME_BYTES), MaxInterviewSends)
    \/ AudioHandler("ws1")

SpecInterview == InitInterview /\ [][NextInterview]_vars

(* ---- one session with two connections of its owner: the second client
   connects right after the first one was accepted; the first client only
   listens, and once its handler waits for a message the second client
   answers question after question.  The
   server runs without Whisper model and without synthesis ---- *)
InitCeiling ==
    /\ NoSession
    /\ tts_ok = FALSE
    /\ whisper_model = "None"
    /\ ai = NoAiCall

NextCeiling ==
    \/ TickWithin(2, MaxCeilingTicks)
    \/ start_interview(1, 1)
    \/ Connect("ws1", 1, 1)
    \/ ws["ws1"].pc = "greeting" /\ Connect("ws2", 1, 1)
    \/ ws["ws1"].pc = "receive" /\ ClientSend("ws2", InMsg("bytes", "", VAD_FRAME_BYTES), MaxCeilingSends)
    \/ AudioHandler("ws1")
    \/ AudioHandler("ws2")

SpecCeiling == InitCeiling /\ [][NextCeiling]_vars

(* ---- one session whose first connection ends in any way (the end
   command, the time limit, a disconnect, an error, or the HTTP end), and
   a second connection of the owner for the same session id, opened at
   any time.  The clients send control messages only ---- *)
ControlHandler(c) ==
    \/ Greeting(c)
    \/ InitialQuestion(c)
    \/ AskInitial(c)
    \/ Gate(c)
    \/ ReceiveSevered(c)
    \/ ReceiveText(c)
    \/ ReceiveOther(c)
    \/ EndSessionSend(c)

NextLater ==
    \/ Tick(MAX_INTERVIEW_MINUTES * 60 + 1)
    \/ start_interview(1, 1)
    \/ end_interview(1, 1)
    \/ Connect("ws1", 1, 1)
    \/ Connect("ws2", 1, 1)
    \/ \E b \in TextBodies : ClientSend("ws1", InMsg("text", b, 0), MaxLaterSends)
    \/ ClientDisconnect("ws1")
    \/ ControlHandler("ws1")
    \/ ControlHandler("ws2")

SpecLater == Init /\ [][NextLater]_vars

(* ---- two sessions of one user side by side.  A client opens the
   websocket of one of them, streams audio and may disconnect; either
   session may be ended through the route, before, during or after that ---- *)
NextSideBySide ==
    \/ Tick(2)
    \/ StartInterview(1, 1, MaxSessionsSideBySide)
    \/ \E sid \in 1..MaxSessionsSideBySide : end_interview(1, sid)
    \/ \E sid \in 1..MaxSessionsSideBySide : Connect("ws1", sid, 1)
    \/ ClientSend("ws1", InMsg("bytes", "", VAD_FRAME_BYTES), MaxSends)
    \/ ClientDisconnect("ws1")
    \/ AudioHandler("ws1") \/ ReceiveOther("ws1") \/ ReceiveSevered("ws1")

SpecSideBySide == Init /\ [][NextSideBySide]_vars

(* ---- the same system with the scheduling of the event loop: a handler
   that can take a step eventually takes it.  Nothing obliges the client to
   send, the clock to advance or the HTTP routes to be called. ---- *)
FairSpec == Spec /\ WF_vars(Handler("ws1"))

(***************************************************************************)
(* Properties                                                              *)
(***************************************************************************)
SessionIds == 1..Len(sessions)

Pipeline(c) == ws[c].pc \in {"transcribe", "acknowledge", "next_q", "ask_next"}

IsPrefix(a, b) == Len(a) <= Len(b) /\ SubSeq(b, 1, Len(a)) = a

HasResponse(qid) == \E i \in 1..Len(responses) : responses[i].question_id = qid

OpenQuestions(sid) ==
    {q \in 1..Len(questions) : questions[q].session_id = sid /\ ~HasResponse(q)}

Kinds(msgs) == {msgs[i].kind : i \in 1..Len(msgs)}

(* C1: once a session's end_time is set, no step changes it or writes it
   again, whichever path terminates the session a second time. *)
C1_EndTimeSetOnce ==
    [][\A sid \in SessionIds :
          sessions[sid].end_time # None =>
             /\ sessions'[sid].end_time = sessions[sid].end_time
             /\ sessions'[sid].end_writes = sessions[sid].end_writes]_vars

(* C2: neither the handler's question_count nor state["question_count"] ever
   decreases; end_session("Interview complete") starts only with a ceiling
   reached; and no handler waits for a message with its counter at the
   ceiling. *)
C2_CounterMonotonic ==
    [][/\ \A c \in Conns : ws'[c].question_count >= ws[c].question_count
       /\ \A sid \in 1..Len(state) :
             state'[sid].question_count >= state[sid].question_count
       /\ \A c \in Conns :
             (ws[c].pc = "gate" /\ ws'[c].pc = "end_session") =>
                (now > session_end_time(c)
                   \/ ws[c].question_count = MAX_QUESTION_EXCHANGES)
       /\ \A c \in Conns :
             ws[c].pc = "receive" => ws[c].question_count < MAX_QUESTION_EXCHANGES]_vars

(* C3: an active session has exactly one persisted Question without a
   Response. *)
C3_OneOpenQuestion ==
    \A sid \in SessionIds :
        (sid \in active_sessions /\ sessions[sid].end_time = None) =>
            Cardinality(OpenQuestions(sid)) = 1

(* C4: two connections of one session are never both inside an utterance
   pipeline, and a message that arrives while a pipeline runs stays queued
   until the pipeline is over. *)
C4_PipelinesNeverInterleave ==
    [][/\ \A c, d \in Conns :
             (c # d /\ Pipeline(c) /\ Pipeline(d)) => Sid(c) # Sid(d)
       /\ \A c \in Conns : Pipeline(c) => IsPrefix(inbox[c], inbox'[c])]_vars

(* C5: a handler that was left by a disconnect or an unhandled exception has
   set end_time, has removed the session from active_sessions and has sent
   nothing on a severed channel while doing so. *)
C5_FailureFinalizes ==
    \A c \in Conns :
        ws[c].exit \in {"WebSocketDisconnect", "Exception"} =>
            /\ sessions[Sid(c)].end_time # None
            /\ Sid(c) \notin active_sessions
            /\ ws[c].pc # "crashed"

(* C7: once the clock has passed start_time + MAX_INTERVIEW_MINUTES on an open
   connection, the handler eventually runs end_session or ends otherwise,
   also when the client sends nothing more. *)
C7_DurationCeilingEndsSession ==
    \A c \in {"ws1"} :
        (Running(c) /\ ~severed[c] /\ now > session_end_time(c))
            ~> (ws[c].pc = "end_session" \/ ~Running(c))

(* C8: once a session's end_time is set, no Question and no Response is
   persisted for it and no question is sent on a connection of it. *)
C8_EndedIsTerminal ==
    [][\A sid \in SessionIds :
          sessions[sid].end_time # None =>
             /\ \A q \in (Len(questions) + 1)..Len(questions') :
                   questions'[q].session_id # sid
             /\ \A r \in (Len(responses) + 1)..Len(responses') :
                   questions[responses'[r].question_id].session_id # sid
             /\ \A c \in Conns :
                   Sid(c) = sid =>
                      "question" \notin Kinds(SubSeq(sent'[c], Len(sent[c]) + 1, Len(sent'[c])))]_vars

(* C6: handling {"action":"end"} while a response is awaited sets end_time if
   and only if it was unset; from then on end_time is not written again,
   whatever the client does; when the handling completes the closing audio
   and then the end signal are the last two messages sent and the session is
   no longer in active_sessions; and the handler has stopped: it receives
   and sends nothing more. *)
ExplicitEnd(c) == ws[c].pc = "end_session" /\ ws[c].reason = "User ended interview"

C6_ExplicitEnd ==
    [][\A c \in Conns :
          /\ (ws[c].pc = "receive" /\ ws[c].awaiting_response
                 /\ ws'[c].pc = "end_session") =>
                /\ ws'[c].reason = "User ended interview"
                /\ sessions'[Sid(c)].end_time # None
                /\ sessions'[Sid(c)].end_writes =
                      sessions[Sid(c)].end_writes
                         + (IF sessions[Sid(c)].end_time = None THEN 1 ELSE 0)
                /\ sent'[c] = sent[c]
          /\ ExplicitEnd(c) =>
                /\ sessions'[Sid(c)] = sessions[Sid(c)]
                /\ sessions[Sid(c)].end_time # None
          /\ (ExplicitEnd(c) /\ ws'[c].pc = "end_session") =>
                /\ inbox'[c] = inbox[c] \/ Len(inbox'[c]) = Len(inbox[c]) + 1
                /\ sent'[c] = sent[c]
          /\ (ExplicitEnd(c) /\ ws'[c].exit = "end_session") =>
                /\ ws'[c].pc = "done"
                /\ Len(sent'[c]) = Len(sent[c]) + 2
                /\ sent'[c][Len(sent[c]) + 1].kind = "bytes"
                /\ sent'[c][Len(sent[c]) + 2] = Msg("end", ws[c].reason)
                /\ Sid(c) \notin active_sessions'
          /\ ws[c].exit = "end_session" =>
                /\ ws'[c] = ws[c]
                /\ sent'[c] = sent[c]
                /\ inbox'[c] = inbox[c]
                /\ Sid(c) \notin active_sessions']_vars

C6_Witness ==
    \E c \in Conns :
        /\ ws[c].exit = "end_session"
        /\ ws[c].reason = "User ended interview"
        /\ ws[c].awaiting_response
        /\ sessions[Sid(c)].end_writes = 1

(* C9: on a connection none of whose frames was classified as speech,
   speech_detected is false, no utterance is in the pipeline, no transcript
   was sent and no Response was persisted. *)
C9_SilenceEmitsNothing ==
    \A c \in Conns :
        ~obs[c].speech_seen =>
            /\ ~ws[c].speech_detected
            /\ ~Pipeline(c)
            /\ "transcript" \notin Kinds(sent[c])
            /\ \A r \in 1..Len(responses) : responses[r].by # c

C9_Witness ==
    \E c \in Conns :
        /\ ~obs[c].speech_seen
        /\ obs[c].last_frame = "silence"
        /\ "reminder" \in Kinds(sent[c])

(* C10: a non-speech frame classified more than the silence threshold after
   the last speech frame closes the utterance; an utterance is closed only
   by such a frame, only while speech_detected, and leaves speech_detected
   false; a non-speech frame classified while speech_detected is false
   closes nothing and leaves it false. *)
FrameClassified(c) == obs'[c].frame_bit # obs[c].frame_bit

SilentFrame(c) == FrameClassified(c) /\ obs'[c].last_frame = "silence"

UtteranceClosed(c) == ws[c].pc = "receive" /\ ws'[c].pc = "transcribe"

C10_OneUtterancePerBurst ==
    [][\A c \in Conns :
          /\ (/\ SilentFrame(c)
              /\ ws[c].speech_detected
              /\ (now - ws[c].last_speech_frame_time) * 1000 > SILENCE_THRESHOLD_MS)
                => (UtteranceClosed(c) /\ ~ws'[c].speech_detected)
          /\ UtteranceClosed(c) =>
                (SilentFrame(c) /\ ws[c].speech_detected /\ ~ws'[c].speech_detected)
          /\ (SilentFrame(c) /\ ~ws[c].speech_detected) =>
                (~UtteranceClosed(c) /\ ~ws'[c].speech_detected)
          /\ (ws[c].pc # "transcribe" /\ ws'[c].pc = "transcribe") =>
                UtteranceClosed(c)]_vars

C10_Witness ==
    \E c \in Conns :
        /\ \E r \in 1..Len(responses) : responses[r].by = c
        /\ ws[c].pc = "gate"
        /\ ~ws[c].speech_detected
        /\ ws[c].silence_start # None
        /\ obs[c].last_frame = "silence"

(* C11: the audio of an emitted utterance contains, in order, the bytes of
   every frame classified as speech since the previous utterance closed. *)
RECURSIVE ContainsInOrder(_, _)
ContainsInOrder(pieces, audio) ==
    IF pieces = <<>> THEN TRUE
    ELSE IF audio = <<>> THEN FALSE
    ELSE LET p == Head(pieces)
             a == Head(audio)
         IN IF a.src = p.src /\ a.lo <= p.lo /\ p.hi <= a.hi
            THEN ContainsInOrder(Tail(pieces),
                                 <<Piece(a.src, p.hi, a.hi)>> \o Tail(audio))
            ELSE ContainsInOrder(pieces, Tail(audio))

C11_UtteranceHoldsSpeechFrames ==
    [][\A c \in Conns :
          UtteranceClosed(c) =>
             ContainsInOrder(obs[c].speech_bytes, ws'[c].full_audio)]_vars

(* C12: when the transcription of an utterance is empty or white space only,
   a reminder is sent, the question counter, the Question and Response
   tables, the conversation history and the open Question are unchanged, and
   the handler is awaiting a response again (awaiting_response true,
   processing false). *)
Transcribed(c) ==
    /\ ws[c].pc = "transcribe"
    /\ Len(sent'[c]) > Len(sent[c])
    /\ sent'[c][Len(sent[c]) + 1].kind = "transcript"

NewlySent(c) == SubSeq(sent'[c], Len(sent[c]) + 1, Len(sent'[c]))

C12_EmptyTranscription ==
    [][\A c \in Conns :
          (Transcribed(c) /\ strip(sent'[c][Len(sent[c]) + 1].body) = "") =>
             /\ "reminder" \in Kinds(NewlySent(c))
             /\ ws'[c].question_count = ws[c].question_count
             /\ state'[Sid(c)].question_count = state[Sid(c)].question_count
             /\ state'[Sid(c)].conversation_history = state[Sid(c)].conversation_history
             /\ responses' = responses
             /\ questions' = questions
             /\ ws'[c].current_question_db_id = ws[c].current_question_db_id
             /\ ws'[c].awaiting_response
             /\ ~ws'[c].processing]_vars

(* C13: with a question asked on the channel and no speech since, a non-speech frame
   classified 60 seconds or more after the silence began is answered by
   exactly one reminder, and the silence is counted anew; an earlier one is
   answered by none; in both cases no transcript is sent, no utterance is
   closed and no Response is persisted. *)
Reminders(msgs) == Cardinality({i \in 1..Len(msgs) : msgs[i].kind = "reminder"})

QuestionAsked(c) == \E i \in 1..Len(sent[c]) : sent[c][i] = Msg("question", "question")

C13_OneReminderPerSilence ==
    [][\A c \in Conns :
          (/\ SilentFrame(c)
           /\ ~severed[c]
           /\ QuestionAsked(c)
           /\ ws[c].awaiting_response
           /\ ~ws[c].speech_detected
           /\ ws[c].silence_start # None) =>
             /\ IF now - ws[c].silence_start >= max_silence_sec
                THEN Reminders(NewlySent(c)) = 1 /\ ws'[c].silence_start = None
                ELSE Reminders(NewlySent(c)) = 0
             /\ "transcript" \notin Kinds(NewlySent(c))
             /\ ~UtteranceClosed(c)
             /\ responses' = responses]_vars

(* C14: when the backend fails, two calls with the same history return the
   same question, and the question returned with k assistant turns in the
   history (k below the length of the list) is question k of the list. *)
C14_FallbackIsDeterministic ==
    [][(/\ ai.backend = "fails"
        /\ ai'.called
        /\ AssistantTurns(ai.conversation_history) < Len(base_questions)) =>
          /\ ai'.result[Len(ai'.result)] =
                 base_questions[AssistantTurns(ai.conversation_history) + 1]
          /\ ai.called => ai'.result = ai.result]_vars

(* C15: when the backend fails, the value returned is exactly the closing
   statement, without the acknowledgment, if and only if the history holds
   at least as many assistant turns as the fallback list has questions. *)
C15_ClosingWhenExhausted ==
    (ai.called /\ ai.backend = "fails") =>
        (ai.result = <<closing_statement>>
            <=> AssistantTurns(ai.conversation_history) >= Len(base_questions))

C15_Witness ==
    /\ ai.called
    /\ ai.backend = "fails"
    /\ ai.current_user_response # ""
    /\ AssistantTurns(ai.conversation_history) = Len(base_questions)
    /\ Len(ai.conversation_history) > Len(base_questions)
    /\ ai.result = <<closing_statement>>

(* C16: a user who does not own a session, or presents no valid token,
   changes nothing of it.  Her websocket connection is closed with the
   policy-violation code, with no row written, no runtime state modified and
   no message sent, and stays closed; her call of the end-interview route is
   answered 404 and leaves end_time and active_sessions as they were. *)
NotOwner(u, sid) ==
    \/ u = 0
    \/ sid \notin 1..Len(sessions)
    \/ sessions[sid].user_id # u

C16_NonOwnerChangesNothing ==
    [][/\ \A c \in Conns :
            /\ (ws[c].pc = "init" /\ ws'[c].pc # "init"
                    /\ NotOwner(ws'[c].user, ws'[c].session_id)) =>
                  /\ ws'[c].pc = "closed"
                  /\ ws'[c].exit = "WS_1008_POLICY_VIOLATION"
                  /\ UNCHANGED <<sessions, questions, responses, active_sessions,
                                 state, sent>>
            /\ ws[c].pc = "closed" => (ws'[c] = ws[c] /\ sent'[c] = sent[c])
       /\ (http' # http /\ NotOwner(http'.user, http'.session_id)) =>
            /\ http'.status = 404
            /\ UNCHANGED <<sessions, questions, responses, active_sessions, state,
                           ws, sent>>]_vars

C16_Witness ==
    /\ http = [user |-> 2, session_id |-> 1, status |-> 404]
    /\ 1 \in active_sessions
    /\ sessions[1].end_time = None
    /\ ws["ws1"].pc = "closed" /\ ws["ws1"].user = 2
    /\ ws["ws2"].pc = "receive"
    /\ Len(responses) > 0

(* C17: when synthesis fails the text is still delivered: every call of
   ask_question that returns has sent the question JSON, and the reminder
   due after the no-response timeout is sent as JSON. *)
QuestionStep(c) ==
    /\ ws[c].pc \in {"greeting", "ask_initial", "ask_next"}
    /\ ws'[c].pc \in {"initial_q", "gate"}

C17_TextSentWithoutAudio ==
    [][\A c \in Conns :
          /\ QuestionStep(c) => "question" \in Kinds(NewlySent(c))
          /\ (/\ SilentFrame(c)
              /\ ~severed[c]
              /\ ws[c].awaiting_response
              /\ ~ws[c].speech_detected
              /\ ws[c].silence_start # None
              /\ now - ws[c].silence_start >= max_silence_sec) =>
                "reminder" \in Kinds(NewlySent(c))]_vars

(* C18: a failure of the AI backend, of speech synthesis or of transcription
   does not terminate the session: the step of the handler that takes the
   result of the failed call stays in the turn loop, leaves end_time unset
   and leaves the runtime state in active_sessions. *)
TranscriptionFailed(c) ==
    /\ ws[c].pc = "transcribe"
    /\ ws'[c].pc # "transcribe"
    /\ ~\E i \in 1..Len(NewlySent(c)) : NewlySent(c)[i] = Msg("transcript", "answer")

AiFailed(c) ==
    /\ ws[c].pc \in {"initial_q", "next_q"}
    /\ ws'[c].pc # ws[c].pc
    /\ ai.backend = "fails"

SynthesisFailed(c) ==
    /\ ws[c].pc \in {"greeting", "ask_initial", "acknowledge", "ask_next", "transcribe"}
    /\ ws'[c].pc # ws[c].pc
    /\ ~tts_ok

InTurnLoop(pc) ==
    pc \in {"initial_q", "ask_initial", "gate", "receive", "transcribe", "acknowledge",
            "next_q", "ask_next"}

C18_FailuresAreNotFatal ==
    [][\A c \in Conns :
          (/\ ~severed[c]
           /\ TranscriptionFailed(c) \/ AiFailed(c) \/ SynthesisFailed(c)) =>
             /\ InTurnLoop(ws'[c].pc)
             /\ sessions'[Sid(c)].end_time = None
             /\ Sid(c) \in active_sessions']_vars

C18_Witness ==
    /\ ~tts_ok
    /\ ai.backend = "fails"
    /\ \E i \in 1..Len(sent["ws1"]) :
          sent["ws1"][i] = Msg("transcript", "Error: Could not transcribe audio.")
    /\ Len(responses) > 0
    /\ Len(questions) > 2
    /\ ws["ws1"].pc = "receive"
    /\ sessions[1].end_time = None
    /\ 1 \in active_sessions

(* C19: the Question that a Response references is the one persisted last
   for its session when the utterance is taken for processing (and so the
   one the Response is stored under), and no Question has two Responses. *)
LatestQuestion(sid) ==
    CHOOSE q \in 1..Len(questions) :
        /\ questions[q].session_id = sid
        /\ \A p \in q + 1..Len(questions) : questions[p].session_id # sid

C19_ResponseToLatestQuestion ==
    [][\A c \in Conns :
          /\ UtteranceClosed(c) =>
                ws[c].current_question_db_id = LatestQuestion(Sid(c))
          /\ (ws[c].pc = "transcribe" /\ Len(responses') > Len(responses)) =>
                /\ responses'[Len(responses')].question_id = ws[c].current_question_db_id
                /\ \A i, j \in 1..Len(responses') :
                       responses'[i].question_id = responses'[j].question_id => i = j]_vars

(* C20: an operation on one session changes nothing of another session: its
   runtime state (history, audio buffer, question counter, open question),
   its entry in active_sessions, its row, and the Questions and Responses
   persisted under it change only in steps of a connection bound to it, of
   the end-interview route called for it, or of the start-interview call
   that creates it. *)
QuestionsOf(qs, sid) == {q \in 1..Len(qs) : qs[q].session_id = sid}

ResponsesOf(qs, rs, sid) ==
    {i \in 1..Len(rs) : qs[rs[i].question_id].session_id = sid}

SessionChanged(sid) ==
    \/ state'[sid] # state[sid]
    \/ sessions'[sid] # sessions[sid]
    \/ (sid \in active_sessions') # (sid \in active_sessions)
    \/ QuestionsOf(questions', sid) # QuestionsOf(questions, sid)
    \/ ResponsesOf(questions', responses', sid) # ResponsesOf(questions, responses, sid)

OperationOn(sid) ==
    \/ \E c \in Conns :
          /\ ws'[c].session_id = sid
          /\ ws'[c] # ws[c] \/ inbox'[c] # inbox[c] \/ sent'[c] # sent[c]
    \/ http' # http /\ http'.session_id = sid

C20_SessionsArePartitioned ==
    [][\A sid \in SessionIds : SessionChanged(sid) => OperationOn(sid)]_vars

C20_Witness ==
    /\ Len(sessions) = 2
    /\ sessions[1].end_time # None
    /\ 1 \notin active_sessions
    /\ http = [user |-> 1, session_id |-> 1, status |-> 200]
    /\ 2 \in active_sessions
    /\ sessions[2].end_time = None
    /\ ws["ws1"].pc = "receive" /\ ws["ws1"].session_id = 2
    /\ ResponsesOf(questions, responses, 2) # {}
    /\ Len(state[2].conversation_history) > 3

(* C21: when the handler has finished with an inbound audio chunk, the
   buffer holds less than one frame. *)
ChunkProcessed(c) ==
    /\ ws[c].pc = "receive"
    /\ inbox[c] # <<>>
    /\ Head(inbox[c]).kind = "bytes"
    /\ ws'[c].pc # "receive"

C21_BufferDrained ==
    [][\A c \in Conns :
          ChunkProcessed(c) =>
             BLen(state'[Sid(c)].audio_buffer_raw) < VAD_FRAME_BYTES]_vars

(* C22: every frame given to the classifier is VAD_FRAME_BYTES long,
   whatever the sizes of the chunks. *)
C22_FramesHaveFrameLength ==
    [][\A c \in Conns : FrameClassified(c) => obs'[c].frame_len = VAD_FRAME_BYTES]_vars

C22_Witness ==
    /\ obs["ws1"].last_frame # "none"
    /\ obs["ws1"].frame_len = VAD_FRAME_BYTES
    /\ BLen(state[1].audio_buffer_raw) > VAD_FRAME_BYTES
    /\ Len(state[1].audio_buffer_raw) > 1
    /\ state[1].audio_buffer_raw[1].lo > 0

(* C23: within a turn the steps follow one another in the order transcribe,
   persist the Response, acknowledge, generate and persist the Question,
   synthesize and send it; the question that is sent is a persisted Question
   of the session that has no Response yet. *)
PersistedBy(rows, c) == {i \in 1..Len(rows) : rows[i].by = c}

C23_TurnStepsInOrder ==
    [][\A c \in Conns :
          /\ PersistedBy(responses', c) # PersistedBy(responses, c) =>
                /\ ws[c].pc = "transcribe"
                /\ NewlySent(c) = <<Msg("transcript", responses'[Len(responses')].response_text)>>
                /\ ws'[c].pc = "acknowledge"
                /\ questions' = questions
          /\ (ws[c].pc = "acknowledge" /\ ws'[c].pc # "acknowledge") =>
                /\ HasResponse(ws[c].current_question_db_id)
                /\ "question" \notin Kinds(NewlySent(c))
                /\ questions' = questions
                /\ ws'[c].pc \in {"next_q", "done", "crashed"}
          /\ (ws[c].pc = "next_q" /\ ws'[c].pc # "next_q") =>
                /\ HasResponse(ws[c].current_question_db_id)
                /\ PersistedBy(questions', c) = PersistedBy(questions, c) \cup {Len(questions')}
                /\ ws'[c].current_question_db_id = Len(questions')
                /\ NewlySent(c) = <<>>
                /\ ws'[c].pc = "ask_next"
          /\ ("question" \in Kinds(NewlySent(c)) /\ ws[c].pc # "greeting") =>
                /\ ws[c].pc \in {"ask_initial", "ask_next"}
                /\ ws[c].current_question_db_id \in QuestionsOf(questions, Sid(c))
                /\ ~HasResponse(ws[c].current_question_db_id)
                /\ NewlySent(c)[Len(NewlySent(c))] =
                      Msg("question", questions[ws[c].current_question_db_id].question_text)
                /\ questions' = questions]_vars

C23_Witness ==
    /\ ws["ws1"].pc = "receive"
    /\ Len(responses) > 0
    /\ Len(questions) = 3
    /\ ws["ws1"].current_question_db_id = 3
    /\ Len(sent["ws1"]) > 0
    /\ sent["ws1"][Len(sent["ws1"])] = Msg("question", questions[3].question_text)

(* C24: a failed transcription (no model loaded, or the transcription
   raised) is handled as no speech recognized: a reminder is sent, no
   Response is persisted, the history and the question counter stay. *)
FailureTexts == {"Speech-to-Text service unavailable.", "Error: Could not transcribe audio."}

TranscriptionFailure(c) ==
    /\ ws[c].pc = "transcribe"
    /\ ws'[c].pc # "transcribe"
    /\ \E i \in 1..Len(NewlySent(c)) :
          NewlySent(c)[i].kind = "transcript" /\ NewlySent(c)[i].body \in FailureTexts

C24_FailedTranscriptionIsNoSpeech ==
    [][\A c \in Conns :
          TranscriptionFailure(c) =>
             /\ "reminder" \in Kinds(NewlySent(c))
             /\ responses' = responses
             /\ state'[Sid(c)].conversation_history = state[Sid(c)].conversation_history
             /\ state'[Sid(c)].question_count = state[Sid(c)].question_count
             /\ ws'[c].question_count = ws[c].question_count]_vars

(* C25: the error text of a failed transcription is not sent to the
   candidate, in a transcript message or in any other. *)
C25_ErrorTextNotSent ==
    \A c \in Conns : \A i \in 1..Len(sent[c]) : sent[c][i].body \notin FailureTexts

(* C26: when the no-response timeout fires, a reminder is all that happens:
   the runtime state of the session (history, buffer, counter, open
   question), the handler's counter, open-question id and awaiting_response,
   and the persisted rows stay as they were. *)
TimeoutFired(c) ==
    /\ SilentFrame(c)
    /\ ~severed[c]
    /\ NoResponseTimeout(ws[c].awaiting_response /\ ~ws[c].speech_detected, now,
                         ws[c].silence_start)

C26_TimeoutOnlyReminds ==
    [][\A c \in Conns :
          TimeoutFired(c) =>
             /\ Kinds(NewlySent(c)) \subseteq {"bytes", "reminder"}
             /\ state' = state
             /\ ws'[c] = [ws[c] EXCEPT !.pc = "gate", !.silence_start = None]
             /\ ws'[c].awaiting_response
             /\ questions' = questions
             /\ responses' = responses
             /\ sessions' = sessions
             /\ active_sessions' = active_sessions]_vars

C26_Witness ==
    /\ ws["ws1"].pc = "gate"
    /\ ws["ws1"].silence_start = None
    /\ ws["ws1"].awaiting_response
    /\ obs["ws1"].last_frame = "silence"
    /\ Len(sent["ws1"]) > 0
    /\ sent["ws1"][Len(sent["ws1"])].kind = "reminder"
    /\ Len(responses) > 0

(* C27: on session start the handler sends the greeting, generates the
   first question from an empty history, persists it and sends it, and only
   then awaits the response; the question sent first is the first Question
   persisted for the session. *)
C27_FirstQuestionIsFirstPersisted ==
    [][\A c \in Conns :
          /\ (ws[c].pc = "greeting" /\ ws'[c].pc = "initial_q") =>
                questions' = questions /\ ~ws'[c].awaiting_response
          /\ (ws[c].pc = "initial_q" /\ ws'[c].pc = "ask_initial") =>
                /\ state[Sid(c)].conversation_history = <<>>
                /\ ~ws'[c].awaiting_response
          /\ (ws[c].pc = "ask_initial" /\ ws'[c].pc = "gate") =>
                /\ \A q \in QuestionsOf(questions, Sid(c)) :
                       q >= ws[c].current_question_db_id
                /\ ws'[c].awaiting_response]_vars

(* C28: no inbound message is handled, and no Response or Question is
   persisted, at a moment when the session is past its maximum duration or
   the question counter has reached its maximum. *)
MessageHandled(c) ==
    /\ ws[c].pc = "receive"
    /\ inbox[c] # <<>>
    /\ inbox'[c] = Tail(inbox[c])

C28_CeilingsGateEveryMessage ==
    [][\A c \in Conns :
          (\/ MessageHandled(c)
           \/ PersistedBy(responses', c) # PersistedBy(responses, c)
           \/ ws[c].pc = "next_q" /\ PersistedBy(questions', c) # PersistedBy(questions, c)) =>
             ~CeilingReached(now, session_end_time(c), ws[c].question_count)]_vars

(* C29: a text message that is not an end command is ignored: the handler
   goes on to the next iteration, the session is not terminated, and the
   buffer, the speech flags, the timers, the history, the counter and the
   persisted rows stay as they were. *)
C29_OtherTextIsIgnored ==
    [][\A c \in Conns :
          (/\ MessageHandled(c)
           /\ Head(inbox[c]).kind = "text"
           /\ Head(inbox[c]).body # "end") =>
             /\ ws'[c] = [ws[c] EXCEPT !.pc = "gate"]
             /\ state' = state
             /\ sessions' = sessions
             /\ active_sessions' = active_sessions
             /\ questions' = questions
             /\ responses' = responses
             /\ sent' = sent]_vars

(* C30: when the AI backend fails on every call of a session, the closing
   statement is persisted as a Question of that session at most once. *)
ClosingQuestions(sid) ==
    {q \in QuestionsOf(questions, sid) : questions[q].question_text = "closing statement"}

C30_ClosingStatementOnce ==
    ai.backend = "fails" => \A sid \in SessionIds : Cardinality(ClosingQuestions(sid)) <= 1

(* C31: in a session with one connection, the question counter (in the
   state dict and in the handler) equals the number of Questions persisted
   for the session and the number of assistant turns in its history. *)
C31_CounterCountsQuestions ==
    \A sid \in SessionIds :
        /\ state[sid].question_count = Cardinality(QuestionsOf(questions, sid))
        /\ state[sid].question_count = AssistantTurns(state[sid].conversation_history)
        /\ \A c \in Conns :
              (Running(c) /\ Sid(c) = sid) => ws[c].question_count = state[sid].question_count

C31_Witness ==
    /\ Len(sessions) = 1
    /\ state[1].question_count = 3
    /\ Cardinality(QuestionsOf(questions, 1)) = 3
    /\ Len(state[1].conversation_history) = 4
    /\ ws["ws1"].pc = "receive"
    /\ ws["ws1"].question_count = 3

(* C32: a session never has more than MAX_QUESTION_EXCHANGES Questions
   persisted, and state["question_count"] never exceeds that number. *)
C32_QuestionsWithinCeiling ==
    \A sid \in SessionIds :
        /\ Cardinality(QuestionsOf(questions, sid)) <= MAX_QUESTION_EXCHANGES
        /\ state[sid].question_count <= MAX_QUESTION_EXCHANGES

(* C33: once a session has been removed from active_sessions, a websocket
   connection for its id is closed with the policy-violation code, and the
   step sends nothing, persists nothing and leaves the session removed;
   no step puts a removed session back into active_sessions. *)
Removed(sid) == sid \in 1..Len(sessions) /\ sid \notin active_sessions

C33_LaterConnectionsRefused ==
    [][/\ \A sid \in SessionIds : Removed(sid) => sid \notin active_sessions'
       /\ \A c \in Conns :
              (ws[c].pc = "init" /\ ws'[c].pc # "init" /\ Removed(ws'[c].session_id))
                  => /\ ws'[c].pc = "closed"
                     /\ ws'[c].exit = "WS_1008_POLICY_VIOLATION"
                     /\ sent' = sent
                     /\ questions' = questions
                     /\ responses' = responses
                     /\ sessions' = sessions
                     /\ state' = state
                     /\ active_sessions' = active_sessions]_vars

C33_Witness ==
    /\ ws["ws1"].pc = "done"
    /\ ws["ws1"].exit = "end_session"
    /\ Removed(1)
    /\ ws["ws2"].pc = "closed"
    /\ ws["ws2"].session_id = 1
    /\ ws["ws2"].user = 1
    /\ sent["ws2"] = <<>>

(* C34: buffering loses and reorders no bytes.  A step that handles an
   inbound chunk leaves the frame it extracted (if any) followed by the new
   buffer content equal to the old buffer content followed by the chunk; at
   an utterance close the rest goes to full_audio and the buffer is cleared;
   no other step changes the buffer.  By induction the frames extracted since
   the last clear, in order, followed by the buffer are the chunks received
   since then, in order. *)
C34_BufferingKeepsBytes ==
    [][\A sid \in SessionIds :
          LET old == state[sid].audio_buffer_raw
              new == state'[sid].audio_buffer_raw
          IN IF \E c \in Conns : Sid(c) = sid /\ ChunkProcessed(c)
             THEN \A c \in Conns :
                    (Sid(c) = sid /\ ChunkProcessed(c)) =>
                       LET received == old \o Chunk(c, old, Head(inbox[c]).size)
                       IN IF ~FrameClassified(c)
                          THEN join(new) = join(received)
                          ELSE IF UtteranceClosed(c)
                          THEN /\ new = <<>>
                               /\ join(obs'[c].frame \o ws'[c].full_audio) = join(received)
                          ELSE join(obs'[c].frame \o new) = join(received)
             ELSE new = old]_vars

C34_Witness ==
    /\ ws["ws1"].pc = "receive"
    /\ Len(obs["ws1"].frame) = 2
    /\ BLen(obs["ws1"].frame) = VAD_FRAME_BYTES
    /\ obs["ws1"].frame[2].lo > 0
    /\ state[1].audio_buffer_raw # <<>>

====
